---- MODULE Spec2Model ----
(***************************************************************************)
(* FileTrace: share lifecycle, access consumption and cascade deletion.    *)
(*                                                                         *)
(* The state is the five MongoDB collections.  Every HTTP request is a     *)
(* process; its steps are the awaited store operations of its route        *)
(* handler, so requests interleave exactly where the handlers await.       *)
(* Variables that record what a request has seen or answered (req, pre,    *)
(* grants) are the request's locals and history, not stored data.          *)
(***************************************************************************)
EXTENDS Integers, FiniteSets, Sequences, TLC

\* ---------------------------------------------------------------- bounds
NumReqs == 3      \* concurrent requests of one kind
MaxCount == 2     \* largest maxAccessCount a share is created with
NumCreators == 2  \* concurrent share-creation requests
MaxDocs == 2      \* dependent documents in the store when a cascade starts
NumDl == 2        \* concurrent downloads while the clock advances
MaxTime == 3      \* last instant of the wall clock

Reqs == 1..NumReqs
Creators == 1..NumCreators
DelReq == "del"   \* the DELETE /api/files/:fileId request
AccReq == "acc"   \* the DELETE /api/auth/account request

\* Accounts.  The credential (JWT) of a user carries userId and username.
Users == {"u1", "u2"}
JwtName == [u \in Users |-> IF u = "u1" THEN "alice" ELSE "bob"]

\* A field the stored document does not carry (undefined), and a null field.
Absent == 0
NoUser == "absent"
NullUser == "null"
DeletedUser == "[Deleted User]"

VARIABLES
    users,       \* USERS collection: set of [id, username]
    files,       \* FILES collection: set of [id, ownerId]
    shareLinks,  \* SHARE_LINKS collection
    userShares,  \* USER_SHARES collection
    auditLogs,   \* AUDIT_LOGS collection
    nextId,      \* next ObjectId the driver hands out
    now,         \* wall clock (new Date())
    pc,          \* position of each request in its handler
    req,         \* locals of each request
    pre,         \* history: the store as it was when a request called its cascade
    grants,      \* history: per share id, responses that carried a download URL
    txn          \* the open multi-document transaction (session) of deleteUserAccount

vars == <<users, files, shareLinks, userShares, auditLogs, nextId, now,
          pc, req, pre, grants, txn>>
store == <<users, files, shareLinks, userShares, auditLogs>>

\* ------------------------------------------------------- documents
NoFile == [id |-> Absent, ownerId |-> NoUser]
NoShare == [id |-> Absent, fileId |-> Absent, ownerId |-> NoUser,
            recipientId |-> NoUser, expiresAt |-> Absent,
            maxAccessCount |-> Absent, accessCount |-> 0, isActive |-> FALSE]
\* deletedCount / modifiedCount of each step; -1: the step has not run.
NoCounts == [user |-> -1, files |-> -1, shareLinks |-> -1, userShares |-> -1,
             auditLogs |-> -1, auditLogsAnonymized |-> -1]
NoReq == [user |-> NoUser, fileId |-> Absent, share |-> NoShare,
          recipient |-> NoUser, maxAccessCount |-> Absent, expiresAt |-> Absent,
          status |-> 0, step |-> 0, counts |-> NoCounts,
          at |-> 0, valid |-> FALSE, name |-> NoUser, list |-> {},
          email |-> NoUser]
NoStore == [users |-> {}, files |-> {}, shareLinks |-> {}, userShares |-> {},
            auditLogs |-> {}]
\* snap: the snapshot the transaction reads; work: the snapshot with the
\* transaction's own writes; wset: the ids it has written (and holds locked).
NoTxn == [open |-> FALSE, snap |-> NoStore, work |-> NoStore, wset |-> NoStore,
          fileIds |-> {}]

TheStore == [users |-> users, files |-> files, shareLinks |-> shareLinks,
             userShares |-> userShares, auditLogs |-> auditLogs]

Max(S) == CHOOSE x \in S : \A y \in S : y <= x

\* A non-transactional write waits while a document it touches is locked by
\* the open transaction (MongoDB document-level write locks).
Unlocked(c, docs) == \A d \in docs : d.id \notin txn.wset[c]

\* ------------------------------------------------------- data layer
getFileById(fs, fileId) ==
    IF \E f \in fs : f.id = fileId
    THEN CHOOSE f \in fs : f.id = fileId
    ELSE NoFile

\* findOne({fileId, recipientId, isActive: true}, {sort: {createdAt: -1}})
getShareByFileAndRecipient(shares, fileId, recipientId) ==
    LET m == {s \in shares : /\ s.fileId = fileId
                             /\ s.recipientId = recipientId
                             /\ s.isActive}
    IN IF m = {} THEN NoShare
       ELSE CHOOSE s \in m : s.id = Max({t.id : t \in m})

\* Expired only when both dimensions have tripped.
validateUserShare_BothTripped(shares, shareId, t) ==
    \E s \in shares :
        /\ s.id = shareId
        /\ s.isActive
        /\ ~(/\ s.expiresAt # Absent /\ t >= s.expiresAt
             /\ s.maxAccessCount # Absent /\ s.accessCount >= s.maxAccessCount)
\* The isActive test left out.
validateUserShare_IgnoresActive(shares, shareId, t) ==
    \E s \in shares :
        /\ s.id = shareId
        /\ ~(s.expiresAt # Absent /\ t >= s.expiresAt)
        /\ ~(s.maxAccessCount # Absent /\ s.accessCount >= s.maxAccessCount)
\* The expiresAt test left out.
validateUserShare_CountOnly(shares, shareId, t) ==
    \E s \in shares :
        /\ s.id = shareId
        /\ s.isActive
        /\ ~(s.maxAccessCount # Absent /\ s.accessCount >= s.maxAccessCount)
\* findOne({_id}); false when the share is missing or inactive, when
\* expiresAt is set and new Date() >= expiresAt, or when maxAccessCount is
\* set and accessCount >= maxAccessCount.
validateUserShare(shares, shareId, t) ==
    \E s \in shares :
        /\ s.id = shareId
        /\ s.isActive
        /\ ~(s.expiresAt # Absent /\ t >= s.expiresAt)
        /\ ~(s.maxAccessCount # Absent /\ s.accessCount >= s.maxAccessCount)

\* A validation that retires the share it finds expired.
sharesAfterValidate_Retire(shares, shareId, t) ==
    {IF s.id = shareId /\ s.expiresAt # Absent /\ t >= s.expiresAt
     THEN [s EXCEPT !.isActive = FALSE] ELSE s : s \in shares}
\* The collection after validateUserShare: its only store operation is the
\* findOne, so the collection is what it was.
sharesAfterValidate(shares, shareId, t) == shares

incrementUserShareAccess(shares, shareId) ==
    {IF s.id = shareId THEN [s EXCEPT !.accessCount = @ + 1] ELSE s : s \in shares}

\* insertOne of createAuditLog: userId and username are stored when given.
createAuditLog(logs, id, fileId, action, userId) ==
    logs \cup {[id |-> id, fileId |-> fileId, action |-> action,
                userId |-> userId,
                username |-> IF userId = NoUser THEN NoUser ELSE JwtName[userId]]}

\* auditLogger middleware: after a 2xx response, an asynchronous createAuditLog
\* whose failure is only logged.
AuditWrite(r, action, next) ==
    /\ pc' = [pc EXCEPT ![r] = next]
    /\ \/ /\ auditLogs' = createAuditLog(auditLogs, nextId, req[r].fileId,
                                         action, req[r].user)
          /\ nextId' = nextId + 1
       \/ UNCHANGED <<auditLogs, nextId>>
    /\ UNCHANGED <<users, files, shareLinks, userShares, now, req, pre, grants, txn>>

\* ------------------------------------------------ GET /download/:fileId
DlStart(r) ==
    /\ pc[r] = "idle"
    /\ \E u \in Users, f \in {x.id : x \in files} \cup {Absent} :
          LET file == getFileById(files, f) IN
          /\ req' = [req EXCEPT ![r] = [NoReq EXCEPT !.user = u, !.fileId = f,
                                           !.status = IF file = NoFile THEN 404 ELSE 0]]
          /\ pc' = [pc EXCEPT ![r] =
                       IF file = NoFile THEN "done"
                       ELSE IF file.ownerId = u THEN "dlUrl" ELSE "dlGetShare"]
    /\ UNCHANGED <<store, nextId, now, pre, grants, txn>>

DlGetShare(r) ==
    /\ pc[r] = "dlGetShare"
    /\ LET sh == getShareByFileAndRecipient(userShares, req[r].fileId, req[r].user) IN
          IF sh = NoShare
          THEN /\ pc' = [pc EXCEPT ![r] = "done"]
               /\ req' = [req EXCEPT ![r].status = 404]
          ELSE /\ pc' = [pc EXCEPT ![r] = "dlValidate"]
               /\ req' = [req EXCEPT ![r].share = sh]
    /\ UNCHANGED <<store, nextId, now, pre, grants, txn>>

DlValidate(r) ==
    /\ pc[r] = "dlValidate"
    /\ IF validateUserShare(userShares, req[r].share.id, now)
       THEN /\ pc' = [pc EXCEPT ![r] = "dlIncrement"]
            /\ req' = [req EXCEPT ![r].at = now, ![r].valid = TRUE]
       ELSE /\ pc' = [pc EXCEPT ![r] = "done"]
            /\ req' = [req EXCEPT ![r].at = now, ![r].status = 403]
    /\ userShares' = sharesAfterValidate(userShares, req[r].share.id, now)
    /\ UNCHANGED <<users, files, shareLinks, auditLogs, nextId, now, pre,
                   grants, txn>>

DlIncrement(r) ==
    /\ pc[r] = "dlIncrement"
    /\ Unlocked("userShares", {s \in userShares : s.id = req[r].share.id})
    /\ userShares' = incrementUserShareAccess(userShares, req[r].share.id)
    /\ req' = [req EXCEPT ![r].step = 1]
    /\ pc' = [pc EXCEPT ![r] = "dlUrl"]
    /\ UNCHANGED <<users, files, shareLinks, auditLogs, nextId, now, pre,
                   grants, txn>>

\* getDownloadUrl, updateAccessStats (file statistics, not modelled), 200.
DlRespond(r) ==
    /\ pc[r] = "dlUrl"
    /\ pc' = [pc EXCEPT ![r] = "dlAudit"]
    /\ req' = [req EXCEPT ![r].status = 200]
    /\ grants' = IF req[r].share = NoShare THEN grants
                 ELSE [grants EXCEPT ![req[r].share.id] = @ + 1]
    /\ UNCHANGED <<store, nextId, now, pre, txn>>

\* getDownloadUrl throws: the catch block answers 500, nothing is logged.
DlUrlFails(r) ==
    /\ pc[r] = "dlUrl"
    /\ pc' = [pc EXCEPT ![r] = "done"]
    /\ req' = [req EXCEPT ![r].status = 500]
    /\ UNCHANGED <<store, nextId, now, pre, grants, txn>>

DlAudit(r) ==
    /\ pc[r] = "dlAudit"
    /\ AuditWrite(r, "DOWNLOAD", "done")

\* ------------------------------------------- POST /share/:token/download
\* The share-link data layer (data/shareLinks.js): the validity predicate of
\* the Expiration Policy Evaluator and the compare-and-increment of the
\* Access Consumption Service.
getShareLinkByToken(links, token) ==
    IF \E l \in links : l.id = token
    THEN CHOOSE l \in links : l.id = token
    ELSE NoShare

validateShareLink(links, token, t) ==
    \E l \in links :
        /\ l.id = token
        /\ l.isActive
        /\ ~(l.expiresAt # Absent /\ t >= l.expiresAt)
        /\ ~(l.maxAccessCount # Absent /\ l.accessCount >= l.maxAccessCount)

incrementShareAccess(links, token) ==
    {IF /\ l.id = token
        /\ l.isActive
        /\ ~(l.maxAccessCount # Absent /\ l.accessCount >= l.maxAccessCount)
     THEN [l EXCEPT !.accessCount = @ + 1] ELSE l : l \in links}

LdStart(r) ==
    /\ pc[r] = "idle"
    /\ \E token \in {l.id : l \in shareLinks} \cup {Absent} :
          req' = [req EXCEPT ![r] = [NoReq EXCEPT !.share.id = token]]
    /\ pc' = [pc EXCEPT ![r] = "ldValidate"]
    /\ UNCHANGED <<store, nextId, now, pre, grants, txn>>

LdValidate(r) ==
    /\ pc[r] = "ldValidate"
    /\ pc' = [pc EXCEPT ![r] =
                 IF validateShareLink(shareLinks, req[r].share.id, now)
                 THEN "ldGetLink" ELSE "ldProbe"]
    /\ UNCHANGED <<store, nextId, now, req, pre, grants, txn>>

\* Rejected: look the link up for its fileId, then log the probe.
LdProbe(r) ==
    /\ pc[r] = "ldProbe"
    /\ req' = [req EXCEPT ![r].fileId =
                  getShareLinkByToken(shareLinks, req[r].share.id).fileId]
    /\ pc' = [pc EXCEPT ![r] = "ldProbeAudit"]
    /\ UNCHANGED <<store, nextId, now, pre, grants, txn>>

\* await createAuditLog(EXPIRED_LINK_ATTEMPT), then 403.
LdProbeAudit(r) ==
    /\ pc[r] = "ldProbeAudit"
    /\ auditLogs' = createAuditLog(auditLogs, nextId, req[r].fileId,
                                   "EXPIRED_LINK_ATTEMPT", NoUser)
    /\ nextId' = nextId + 1
    /\ req' = [req EXCEPT ![r].status = 403]
    /\ pc' = [pc EXCEPT ![r] = "done"]
    /\ UNCHANGED <<users, files, shareLinks, userShares, now, pre, grants, txn>>

\* The awaited createAuditLog throws: the catch block answers 500.
LdAuditFails(r) ==
    /\ pc[r] \in {"ldProbeAudit", "ldAudit"}
    /\ req' = [req EXCEPT ![r].status = 500]
    /\ pc' = [pc EXCEPT ![r] = "done"]
    /\ UNCHANGED <<store, nextId, now, pre, grants, txn>>

\* shareLink = getShareLinkByToken(token); shareLink.fileId of a link that
\* is gone throws (500).
LdGetLink(r) ==
    /\ pc[r] = "ldGetLink"
    /\ LET l == getShareLinkByToken(shareLinks, req[r].share.id) IN
          IF l = NoShare
          THEN /\ req' = [req EXCEPT ![r].status = 500]
               /\ pc' = [pc EXCEPT ![r] = "done"]
          ELSE /\ req' = [req EXCEPT ![r].share = l, ![r].fileId = l.fileId]
               /\ pc' = [pc EXCEPT ![r] = "ldGetFile"]
    /\ UNCHANGED <<store, nextId, now, pre, grants, txn>>

LdGetFile(r) ==
    /\ pc[r] = "ldGetFile"
    /\ IF getFileById(files, req[r].fileId) = NoFile
       THEN /\ req' = [req EXCEPT ![r].status = 404]
            /\ pc' = [pc EXCEPT ![r] = "done"]
       ELSE /\ req' = req
            /\ pc' = [pc EXCEPT ![r] = "ldUrl"]
    /\ UNCHANGED <<store, nextId, now, pre, grants, txn>>

\* getDownloadUrl: returns the URL, or throws (500).
LdUrl(r) ==
    /\ pc[r] = "ldUrl"
    /\ \/ /\ pc' = [pc EXCEPT ![r] = "ldIncrement"]
          /\ req' = req
       \/ /\ pc' = [pc EXCEPT ![r] = "done"]
          /\ req' = [req EXCEPT ![r].status = 500]
    /\ UNCHANGED <<store, nextId, now, pre, grants, txn>>

\* incrementShareAccess(token): the route does not look at its result.
LdIncrement(r) ==
    /\ pc[r] = "ldIncrement"
    /\ Unlocked("shareLinks", {l \in shareLinks : l.id = req[r].share.id})
    /\ shareLinks' = incrementShareAccess(shareLinks, req[r].share.id)
    /\ req' = [req EXCEPT ![r].step = 1]
    /\ pc' = [pc EXCEPT ![r] = "ldAudit"]
    /\ UNCHANGED <<users, files, userShares, auditLogs, nextId, now, pre,
                   grants, txn>>

\* updateAccessStats (file statistics, not modelled), await
\* createAuditLog(DOWNLOAD), then 200 with the download URL.
LdRespond(r) ==
    /\ pc[r] = "ldAudit"
    /\ auditLogs' = createAuditLog(auditLogs, nextId, req[r].fileId,
                                   "DOWNLOAD", NoUser)
    /\ nextId' = nextId + 1
    /\ req' = [req EXCEPT ![r].status = 200]
    /\ grants' = [grants EXCEPT ![req[r].share.id] = @ + 1]
    /\ pc' = [pc EXCEPT ![r] = "done"]
    /\ UNCHANGED <<users, files, shareLinks, userShares, now, pre, txn>>

\* ------------------------------------------------- POST /share/create
getUserById(us, userId) == \E u \in us : u.id = userId
\* The recipient is named by e-mail or username; either names one account.
getUserByEmailOrUsername(us, identifier) == \E u \in us : u.id = identifier

\* createUserShare, first store operation: the existing active share of the
\* (fileId, recipientId) pair, if any.
findExistingActive(shares, fileId, recipientId) ==
    {s \in shares : s.fileId = fileId /\ s.recipientId = recipientId /\ s.isActive}

\* The update of the prior share left out.
deactivateUserShare_Skipped(shares, shareId) == shares
\* updateOne({_id}, {$set: {isActive: false}})
deactivateUserShare(shares, shareId) ==
    {IF s.id = shareId THEN [s EXCEPT !.isActive = FALSE] ELSE s : s \in shares}

\* The share is stored under its recipient's id as owner.
newUserShare_RecipientOwns(id, fileId, ownerId, recipientId, expiresAt, maxAccessCount) ==
    [id |-> id, fileId |-> fileId, ownerId |-> recipientId,
     recipientId |-> recipientId, expiresAt |-> expiresAt,
     maxAccessCount |-> maxAccessCount, accessCount |-> 0, isActive |-> TRUE]
\* The stored document loses both expiration dimensions.
newUserShare_NoDimensions(id, fileId, ownerId, recipientId, expiresAt, maxAccessCount) ==
    [id |-> id, fileId |-> fileId, ownerId |-> ownerId,
     recipientId |-> recipientId, expiresAt |-> Absent,
     maxAccessCount |-> Absent, accessCount |-> 0, isActive |-> TRUE]
newUserShare(id, fileId, ownerId, recipientId, expiresAt, maxAccessCount) ==
    [id |-> id, fileId |-> fileId, ownerId |-> ownerId,
     recipientId |-> recipientId, expiresAt |-> expiresAt,
     maxAccessCount |-> maxAccessCount, accessCount |-> 0, isActive |-> TRUE]

\* createShareLink: the stored link carries the request's dimensions.
newShareLink(id, fileId, ownerId, expiresAt, maxAccessCount) ==
    [NoShare EXCEPT !.id = id, !.fileId = fileId, !.ownerId = ownerId,
                    !.expiresAt = expiresAt, !.maxAccessCount = maxAccessCount,
                    !.isActive = TRUE]

\* The first refine of createShareSchema and of createUserShareSchema: at
\* least one of expirationMinutes and maxAccessCount is given.
createShareSchema(expiresAt, maxAccessCount) ==
    expiresAt # Absent \/ maxAccessCount # Absent
createUserShareSchema(ownerId, recipientId, expiresAt, maxAccessCount) ==
    /\ expiresAt # Absent \/ maxAccessCount # Absent
    /\ ownerId # recipientId

\* createShareSchema.parse, getFileById and the ownership check; then the
\* branch on shareType (v = NoUser: shareType 'link').
CsStart(r) ==
    /\ pc[r] = "idle"
    /\ \E u \in Users, f \in {x.id : x \in files} \cup {Absent},
          v \in Users \cup {NoUser},
          n \in {Absent} \cup (1..MaxCount), e \in {Absent, now + 1} :
          LET file == getFileById(files, f) IN
          IF ~createShareSchema(e, n)
          THEN /\ req' = [req EXCEPT ![r] = [NoReq EXCEPT !.status = 400]]
               /\ pc' = [pc EXCEPT ![r] = "done"]
          ELSE IF file = NoFile \/ file.ownerId # u
          THEN /\ req' = [req EXCEPT ![r] = [NoReq EXCEPT !.status = 404]]
               /\ pc' = [pc EXCEPT ![r] = "done"]
          ELSE /\ req' = [req EXCEPT ![r] =
                             [NoReq EXCEPT !.user = u, !.fileId = f, !.recipient = v,
                                           !.maxAccessCount = n, !.expiresAt = e]]
               /\ pc' = [pc EXCEPT ![r] =
                            IF v = NoUser THEN "csLink" ELSE "csRecipient"]
    /\ UNCHANGED <<store, nextId, now, pre, grants, txn>>

\* shareType 'link': createShareLink inserts the link; 201.
CsLink(r) ==
    /\ pc[r] = "csLink"
    /\ shareLinks' = shareLinks \cup
          {newShareLink(nextId, req[r].fileId, req[r].user,
                        req[r].expiresAt, req[r].maxAccessCount)}
    /\ nextId' = nextId + 1
    /\ req' = [req EXCEPT ![r].status = 201, ![r].share.id = nextId]
    /\ pc' = [pc EXCEPT ![r] = "csAudit"]
    /\ UNCHANGED <<users, files, userShares, auditLogs, now, pre, grants, txn>>

\* getUserByEmailOrUsername; then createUserShareSchema.parse, which rejects
\* ownerId = recipientId.
CsRecipient(r) ==
    /\ pc[r] = "csRecipient"
    /\ IF ~getUserByEmailOrUsername(users, req[r].recipient)
       THEN /\ req' = [req EXCEPT ![r].status = 404]
            /\ pc' = [pc EXCEPT ![r] = "done"]
       ELSE IF ~createUserShareSchema(req[r].user, req[r].recipient,
                                      req[r].expiresAt, req[r].maxAccessCount)
       THEN /\ req' = [req EXCEPT ![r].status = 400]
            /\ pc' = [pc EXCEPT ![r] = "done"]
       ELSE /\ req' = req
            /\ pc' = [pc EXCEPT ![r] = "csFind"]
    /\ UNCHANGED <<store, nextId, now, pre, grants, txn>>

CsFind(r) ==
    /\ pc[r] = "csFind"
    /\ LET m == findExistingActive(userShares, req[r].fileId, req[r].recipient) IN
          IF m = {}
          THEN /\ req' = req
               /\ pc' = [pc EXCEPT ![r] = "csInsert"]
          ELSE /\ \E s \in m : req' = [req EXCEPT ![r].share = s]
               /\ pc' = [pc EXCEPT ![r] = "csDeactivate"]
    /\ UNCHANGED <<store, nextId, now, pre, grants, txn>>

CsDeactivate(r) ==
    /\ pc[r] = "csDeactivate"
    /\ Unlocked("userShares", {s \in userShares : s.id = req[r].share.id})
    /\ userShares' = deactivateUserShare(userShares, req[r].share.id)
    /\ pc' = [pc EXCEPT ![r] = "csInsert"]
    /\ UNCHANGED <<users, files, shareLinks, auditLogs, nextId, now, req, pre,
                   grants, txn>>

CsInsert(r) ==
    /\ pc[r] = "csInsert"
    /\ userShares' = userShares \cup
          {newUserShare(nextId, req[r].fileId, req[r].user, req[r].recipient,
                        req[r].expiresAt, req[r].maxAccessCount)}
    /\ nextId' = nextId + 1
    /\ req' = [req EXCEPT ![r].status = 201, ![r].share.id = nextId]
    /\ pc' = [pc EXCEPT ![r] = "csAudit"]
    /\ UNCHANGED <<users, files, shareLinks, auditLogs, now, pre, grants, txn>>

CsAudit(r) ==
    /\ pc[r] = "csAudit"
    /\ AuditWrite(r, "SHARE_CREATED", "done")

\* ------------------------------------------- DELETE /api/files/:fileId
Ids(docs) == {d.id : d \in docs}

\* The filters of deleteFile's four delete operations.
fileById(fs, fileId) == {f \in fs : f.id = fileId}
shareLinksOfFile(links, fileId) == {l \in links : l.fileId = fileId}
\* deleteMany({fileId, isActive: true}) would leave the revoked shares.
userSharesOfFile_ActiveOnly(shares, fileId) ==
    {s \in shares : s.fileId = fileId /\ s.isActive}
userSharesOfFile(shares, fileId) == {s \in shares : s.fileId = fileId}
auditLogsOfFile(logs, fileId) == {a \in logs : a.fileId = fileId}

\* getFileById and the ownership check; then deleteFile is called.
DfStart(r) ==
    /\ pc[r] = "idle"
    /\ \E u \in Users, f \in {x.id : x \in files} \cup {Absent} :
          LET file == getFileById(files, f) IN
          IF file = NoFile \/ file.ownerId # u
          THEN /\ req' = [req EXCEPT ![r] = [NoReq EXCEPT !.status = 404]]
               /\ pc' = [pc EXCEPT ![r] = "done"]
               /\ pre' = pre
          ELSE /\ req' = [req EXCEPT ![r] = [NoReq EXCEPT !.user = u, !.fileId = f]]
               /\ pc' = [pc EXCEPT ![r] = "dfFile"]
               /\ pre' = [pre EXCEPT ![r] = TheStore]
    /\ UNCHANGED <<store, nextId, now, grants, txn>>

\* filesCollection.deleteOne({_id})
DfDeleteFile(r) ==
    /\ pc[r] = "dfFile"
    /\ LET m == fileById(files, req[r].fileId) IN
          /\ Unlocked("files", m)
          /\ files' = files \ m
          /\ req' = [req EXCEPT ![r].counts.files = Cardinality(m), ![r].step = 1]
    /\ pc' = [pc EXCEPT ![r] = "dfLinks"]
    /\ UNCHANGED <<users, shareLinks, userShares, auditLogs, nextId, now, pre,
                   grants, txn>>

\* shareLinksCollection.deleteMany({fileId})
DfDeleteShareLinks(r) ==
    /\ pc[r] = "dfLinks"
    /\ LET m == shareLinksOfFile(shareLinks, req[r].fileId) IN
          /\ Unlocked("shareLinks", m)
          /\ shareLinks' = shareLinks \ m
          /\ req' = [req EXCEPT ![r].counts.shareLinks = Cardinality(m), ![r].step = 2]
    /\ pc' = [pc EXCEPT ![r] = "dfShares"]
    /\ UNCHANGED <<users, files, userShares, auditLogs, nextId, now, pre,
                   grants, txn>>

\* userSharesCollection.deleteMany({fileId})
DfDeleteUserShares(r) ==
    /\ pc[r] = "dfShares"
    /\ LET m == userSharesOfFile(userShares, req[r].fileId) IN
          /\ Unlocked("userShares", m)
          /\ userShares' = userShares \ m
          /\ req' = [req EXCEPT ![r].counts.userShares = Cardinality(m), ![r].step = 3]
    /\ pc' = [pc EXCEPT ![r] = "dfAudits"]
    /\ UNCHANGED <<users, files, shareLinks, auditLogs, nextId, now, pre,
                   grants, txn>>

\* auditLogsCollection.deleteMany({fileId}); deleteFile returns the counts.
DfDeleteAuditLogs(r) ==
    /\ pc[r] = "dfAudits"
    /\ LET m == auditLogsOfFile(auditLogs, req[r].fileId) IN
          /\ Unlocked("auditLogs", m)
          /\ auditLogs' = auditLogs \ m
          /\ req' = [req EXCEPT ![r].counts.auditLogs = Cardinality(m), ![r].step = 4]
    /\ pc' = [pc EXCEPT ![r] = "dfS3"]
    /\ UNCHANGED <<users, files, shareLinks, userShares, nextId, now, pre,
                   grants, txn>>

\* One of the four delete operations throws: deleteFile has no try/catch and
\* no transaction, the route's catch block answers 500.
DfStoreError(r) ==
    /\ pc[r] \in {"dfFile", "dfLinks", "dfShares", "dfAudits"}
    /\ req' = [req EXCEPT ![r].status = 500]
    /\ pc' = [pc EXCEPT ![r] = "done"]
    /\ UNCHANGED <<store, nextId, now, pre, grants, txn>>

\* deleteFromS3 after the cascade: 200 with the counts, or (it throws) 500.
DfS3(r) ==
    /\ pc[r] = "dfS3"
    /\ \/ /\ req' = [req EXCEPT ![r].status = 200]
          /\ pc' = [pc EXCEPT ![r] = "dfAudit"]
       \/ /\ req' = [req EXCEPT ![r].status = 500]
          /\ pc' = [pc EXCEPT ![r] = "done"]
    /\ UNCHANGED <<store, nextId, now, pre, grants, txn>>

\* auditLogger('DELETE') after the 200 response.
DfAudit(r) ==
    /\ pc[r] = "dfAudit"
    /\ AuditWrite(r, "DELETE", "done")

\* ------------------------------------------- DELETE /api/auth/account
\* The filters of deleteUserAccount's steps.
filesOwnedBy(fs, u) == {f \in fs : f.ownerId = u}
shareLinksOwnedBy(links, u) == {l \in links : l.ownerId = u}
\* Deleting by participant rather than by owner.
userSharesOwnedBy_OrRecipient(shares, u) ==
    {s \in shares : s.ownerId = u \/ s.recipientId = u}
userSharesOwnedBy(shares, u) == {s \in shares : s.ownerId = u}
\* $nin where $in is meant.
auditLogsOfFiles_Nin(logs, fileIds) == {a \in logs : a.fileId \notin fileIds}
auditLogsOfFiles(logs, fileIds) == {a \in logs : a.fileId \in fileIds}
\* The userId condition left out of the anonymization filter.
auditLogsOfActorElsewhere_AnyActor(logs, u, fileIds) ==
    {a \in logs : a.fileId \notin fileIds}
auditLogsOfActorElsewhere(logs, u, fileIds) ==
    {a \in logs : a.userId = u /\ a.fileId \notin fileIds}
anonymize(a) == [a EXCEPT !.userId = NullUser, !.username = DeletedUser]
userById(us, u) == {x \in us : x.id = u}

\* Every operation of the callback carries {session}: its write goes to the
\* transaction, the collection keeps its committed documents until commit.
\* An operation without {session} writes the collection at once.
withSession_Missing(committed, written) == written
withSession(committed, written) == committed

\* getUserById and verifyPassword.  (The S3 deletion that follows is caught
\* and only logged; it touches no collection.)
AccStart(r) ==
    /\ pc[r] = "idle"
    /\ \E u \in Users, passwordOk \in BOOLEAN :
          IF ~getUserById(users, u)
          THEN /\ req' = [req EXCEPT ![r] = [NoReq EXCEPT !.status = 404]]
               /\ pc' = [pc EXCEPT ![r] = "done"]
          ELSE IF ~passwordOk
          THEN /\ req' = [req EXCEPT ![r] = [NoReq EXCEPT !.status = 401]]
               /\ pc' = [pc EXCEPT ![r] = "done"]
          ELSE /\ req' = [req EXCEPT ![r] = [NoReq EXCEPT !.user = u]]
               /\ pc' = [pc EXCEPT ![r] = "accFiles"]
    /\ UNCHANGED <<store, nextId, now, pre, grants, txn>>

\* session.withTransaction starts (or restarts) the callback.
\* STEP 1: the ids of the user's files, read from the transaction's snapshot.
AccFindFiles(r) ==
    /\ pc[r] = "accFiles"
    /\ ~txn.open
    /\ txn' = [open |-> TRUE, snap |-> TheStore, work |-> TheStore,
               wset |-> NoStore,
               fileIds |-> Ids(filesOwnedBy(files, req[r].user))]
    /\ req' = [req EXCEPT ![r].counts = NoCounts, ![r].step = 1]
    /\ pc' = [pc EXCEPT ![r] = "accLinks"]
    /\ UNCHANGED <<store, nextId, now, pre, grants>>

\* A write of the callback on collection c: `targets` are the documents the
\* filter matches in the transaction's view, `written` what replaces them.
\* A target that another operation changed after the snapshot is a write
\* conflict: the transaction aborts and withTransaction runs the callback again.
TxnWrite(r, c, targets, written, count, next) ==
    IF \E d \in targets : d \notin TheStore[c]
    THEN /\ txn' = NoTxn
         /\ pc' = [pc EXCEPT ![r] = "accFiles"]
         /\ req' = req
    ELSE /\ txn' = [txn EXCEPT !.work[c] = (@ \ targets) \cup written,
                               !.wset[c] = @ \cup Ids(targets)]
         /\ pc' = [pc EXCEPT ![r] = next]
         /\ req' = [req EXCEPT ![r].counts[count] = Cardinality(targets),
                               ![r].step = @ + 1]

\* STEP 2: shareLinks.deleteMany({ownerId})
AccDeleteShareLinks(r) ==
    /\ pc[r] = "accLinks"
    /\ TxnWrite(r, "shareLinks", shareLinksOwnedBy(txn.work.shareLinks, req[r].user),
                {}, "shareLinks", "accShares")
    /\ shareLinks' = withSession(shareLinks, txn'.work.shareLinks)
    /\ UNCHANGED <<users, files, userShares, auditLogs, nextId, now, pre, grants>>

\* STEP 3: userShares.deleteMany({ownerId})
AccDeleteUserShares(r) ==
    /\ pc[r] = "accShares"
    /\ TxnWrite(r, "userShares", userSharesOwnedBy(txn.work.userShares, req[r].user),
                {}, "userShares", "accAudits")
    /\ userShares' = withSession(userShares, txn'.work.userShares)
    /\ UNCHANGED <<users, files, shareLinks, auditLogs, nextId, now, pre, grants>>

\* STEP 5: auditLogs.deleteMany({fileId: {$in: userFileIds}})
AccDeleteAuditLogs(r) ==
    /\ pc[r] = "accAudits"
    /\ TxnWrite(r, "auditLogs", auditLogsOfFiles(txn.work.auditLogs, txn.fileIds),
                {}, "auditLogs", "accAnonymize")
    /\ auditLogs' = withSession(auditLogs, txn'.work.auditLogs)
    /\ UNCHANGED <<users, files, shareLinks, userShares, nextId, now, pre, grants>>

\* STEP 6: auditLogs.updateMany({userId, fileId: {$nin: userFileIds}},
\*                              {$set: {userId: null, username: '[Deleted User]'}})
AccAnonymize(r) ==
    /\ pc[r] = "accAnonymize"
    /\ LET m == auditLogsOfActorElsewhere(txn.work.auditLogs, req[r].user,
                                          txn.fileIds) IN
          TxnWrite(r, "auditLogs", m, {anonymize(a) : a \in m},
                   "auditLogsAnonymized", "accDelFiles")
    /\ auditLogs' = withSession(auditLogs, txn'.work.auditLogs)
    /\ UNCHANGED <<users, files, shareLinks, userShares, nextId, now, pre, grants>>

\* STEP 7: files.deleteMany({ownerId})
AccDeleteFiles(r) ==
    /\ pc[r] = "accDelFiles"
    /\ TxnWrite(r, "files", filesOwnedBy(txn.work.files, req[r].user),
                {}, "files", "accUser")
    /\ files' = withSession(files, txn'.work.files)
    /\ UNCHANGED <<users, shareLinks, userShares, auditLogs, nextId, now, pre, grants>>

\* STEP 8: users.deleteOne({_id})
AccDeleteUser(r) ==
    /\ pc[r] = "accUser"
    /\ TxnWrite(r, "users", userById(txn.work.users, req[r].user),
                {}, "user", "accCommit")
    /\ users' = withSession(users, txn'.work.users)
    /\ UNCHANGED <<files, shareLinks, userShares, auditLogs, nextId, now, pre, grants>>

\* What a commit leaves in a collection: the documents the transaction wrote
\* replace their committed versions, every other document stays.
Committed(c) ==
    {d \in TheStore[c] : d.id \notin txn.wset[c]}
        \cup {d \in txn.work[c] : d.id \in txn.wset[c]}

\* The callback returned: withTransaction commits, deleteUserAccount returns
\* deletionCounts.
AccCommit(r) ==
    /\ pc[r] = "accCommit"
    /\ users' = Committed("users")
    /\ files' = Committed("files")
    /\ shareLinks' = Committed("shareLinks")
    /\ userShares' = Committed("userShares")
    /\ auditLogs' = Committed("auditLogs")
    /\ pre' = [pre EXCEPT ![r] = txn.snap]
    /\ txn' = NoTxn
    /\ pc' = [pc EXCEPT ![r] = "accRespond"]
    /\ UNCHANGED <<nextId, now, req, grants>>

\* An operation of the callback (or the commit) fails with an error that is
\* not retried: the transaction aborts, deleteUserAccount throws, the route's
\* catch block answers 500 without counts.
AccStoreError(r) ==
    /\ pc[r] \in {"accLinks", "accShares", "accAudits", "accAnonymize",
                  "accDelFiles", "accUser", "accCommit"}
    /\ txn' = NoTxn
    /\ req' = [req EXCEPT ![r].status = 500, ![r].counts = NoCounts]
    /\ pc' = [pc EXCEPT ![r] = "done"]
    /\ UNCHANGED <<store, nextId, now, pre, grants>>

\* 200 with deletedRecords.
AccRespond(r) ==
    /\ pc[r] = "accRespond"
    /\ req' = [req EXCEPT ![r].status = 200]
    /\ pc' = [pc EXCEPT ![r] = "done"]
    /\ UNCHANGED <<store, nextId, now, pre, grants, txn>>

\* ------------------------------------------------------- specifications
InitUserDl ==
    /\ users = {[id |-> u, username |-> JwtName[u]] : u \in Users}
    /\ files = {[id |-> 1, ownerId |-> "u1"]}
    /\ shareLinks = {}
    /\ \E n \in 1..MaxCount :
          userShares = {[NoShare EXCEPT !.id = 2, !.fileId = 1, !.ownerId = "u1",
                                        !.recipientId = "u2", !.maxAccessCount = n,
                                        !.isActive = TRUE]}
    /\ auditLogs = {}
    /\ nextId = 3
    /\ now = 1
    /\ pc = [r \in Reqs |-> "idle"]
    /\ req = [r \in Reqs |-> NoReq]
    /\ pre = [r \in Reqs |-> NoStore]
    /\ grants = [i \in {2} |-> 0]
    /\ txn = NoTxn

NextUserDl ==
    \E r \in Reqs :
        \/ DlStart(r)
        \/ DlGetShare(r)
        \/ DlValidate(r)
        \/ DlIncrement(r)
        \/ DlRespond(r)
        \/ DlUrlFails(r)
        \/ DlAudit(r)

SpecUserDl == InitUserDl /\ [][NextUserDl]_vars

\* C1: for a user share with maxAccessCount = N, under any interleaving of
\* concurrent downloads by the recipient, neither the number of granted
\* download URLs nor the stored accessCount ever exceeds N.
C1_AtMostN ==
    \A s \in userShares :
        s.maxAccessCount # Absent =>
            /\ s.accessCount <= s.maxAccessCount
            /\ grants[s.id] <= s.maxAccessCount
InitLinkDl ==
    /\ users = {[id |-> u, username |-> JwtName[u]] : u \in Users}
    /\ files = {[id |-> 1, ownerId |-> "u1"]}
    /\ \E n \in 1..MaxCount :
          shareLinks = {[NoShare EXCEPT !.id = 2, !.fileId = 1, !.ownerId = "u1",
                                        !.maxAccessCount = n, !.isActive = TRUE]}
    /\ userShares = {}
    /\ auditLogs = {}
    /\ nextId = 3
    /\ now = 1
    /\ pc = [r \in Reqs |-> "idle"]
    /\ req = [r \in Reqs |-> NoReq]
    /\ pre = [r \in Reqs |-> NoStore]
    /\ grants = [i \in {2} |-> 0]
    /\ txn = NoTxn

NextLinkDl ==
    \E r \in Reqs :
        \/ LdStart(r)
        \/ LdValidate(r)
        \/ LdProbe(r)
        \/ LdProbeAudit(r)
        \/ LdAuditFails(r)
        \/ LdGetLink(r)
        \/ LdGetFile(r)
        \/ LdUrl(r)
        \/ LdIncrement(r)
        \/ LdRespond(r)

SpecLinkDl == InitLinkDl /\ [][NextLinkDl]_vars

\* C2: for a link share with maxAccessCount = N and M > N simultaneous
\* downloads of the same token, once all M have answered exactly N were
\* granted a download URL, the other M - N got 403, and accessCount = N.
C2_ExactlyN ==
    \A l \in shareLinks :
        LET M == Cardinality({r \in Reqs : req[r].share.id = l.id}) IN
        (/\ \A r \in Reqs : pc[r] = "done" /\ req[r].share.id = l.id
         /\ \A r \in Reqs : req[r].status \in {200, 403}
         /\ M > l.maxAccessCount)
        => /\ Cardinality({r \in Reqs : req[r].status = 200}) = l.maxAccessCount
           /\ Cardinality({r \in Reqs : req[r].status = 403}) = M - l.maxAccessCount
           /\ l.accessCount = l.maxAccessCount
InitCreate ==
    /\ users = {[id |-> u, username |-> JwtName[u]] : u \in Users}
    /\ files = {[id |-> 1, ownerId |-> "u1"]}
    /\ shareLinks = {}
    /\ userShares = {}
    /\ auditLogs = {}
    /\ nextId = 2
    /\ now = 1
    /\ pc = [r \in Creators |-> "idle"]
    /\ req = [r \in Creators |-> NoReq]
    /\ pre = [r \in Creators |-> NoStore]
    /\ grants = [i \in {} |-> 0]
    /\ txn = NoTxn

NextCreate ==
    \E r \in Creators :
        \/ CsStart(r)
        \/ CsLink(r)
        \/ CsRecipient(r)
        \/ CsFind(r)
        \/ CsDeactivate(r)
        \/ CsInsert(r)
        \/ CsAudit(r)

SpecCreate == InitCreate /\ [][NextCreate]_vars

\* C3: in every reachable state, also with concurrent createUserShare calls
\* for the same pair, at most one UserShare of a (fileId, recipientId) pair
\* is active.
C3_OneActivePerPair ==
    \A s, t \in userShares :
        (/\ s.fileId = t.fileId
         /\ s.recipientId = t.recipientId
         /\ s.isActive
         /\ t.isActive) => s.id = t.id
\* ------------------------------------------------------------ cascades
\* Documents that may exist when the cascades start: per user one file, and
\* for each file a public link, an active and a revoked user share to the
\* other user, and audit entries by the owner, by the other user and by an
\* anonymous link visitor; plus link probes that resolved no file.
FileOf == [u \in Users |-> IF u = "u1" THEN 1 ELSE 2]
Other(u) == CHOOSE v \in Users : v # u
FirstDocId == Cardinality(Users) + 1

CandidateLinks ==
    {[NoShare EXCEPT !.id = FirstDocId + FileOf[u], !.fileId = FileOf[u], !.ownerId = u,
                     !.maxAccessCount = MaxCount, !.isActive = TRUE] : u \in Users}
CandidateShares ==
    {[NoShare EXCEPT !.id = FirstDocId + 2 + 2 * FileOf[u] + (IF act THEN 0 ELSE 1),
                     !.fileId = FileOf[u], !.ownerId = u, !.recipientId = Other(u),
                     !.maxAccessCount = MaxCount, !.isActive = act]
        : u \in Users, act \in BOOLEAN}
CandidateAudits ==
    {[id |-> FirstDocId + 10 + 3 * f + (IF a = NoUser THEN 0 ELSE FileOf[a]),
      fileId |-> f, action |-> "DOWNLOAD", userId |-> a,
      username |-> IF a = NoUser THEN NoUser ELSE JwtName[a]]
        : f \in {FileOf[u] : u \in Users} \cup {Absent}, a \in Users \cup {NoUser}}

InitCascade ==
    /\ users = {[id |-> u, username |-> JwtName[u]] : u \in Users}
    /\ files = {[id |-> FileOf[u], ownerId |-> u] : u \in Users}
    /\ \E L \in SUBSET CandidateLinks, S \in SUBSET CandidateShares,
          A \in SUBSET CandidateAudits :
          /\ Cardinality(L) + Cardinality(S) + Cardinality(A) <= MaxDocs
          /\ shareLinks = L
          /\ userShares = S
          /\ auditLogs = A
    /\ nextId = FirstDocId + 30
    /\ now = 1
    /\ pc = [r \in {DelReq, AccReq} |-> "idle"]
    /\ req = [r \in {DelReq, AccReq} |-> NoReq]
    /\ pre = [r \in {DelReq, AccReq} |-> NoStore]
    /\ grants = [i \in {} |-> 0]
    /\ txn = NoTxn

NextCascade ==
    \/ DfStart(DelReq)
    \/ DfDeleteFile(DelReq)
    \/ DfDeleteShareLinks(DelReq)
    \/ DfDeleteUserShares(DelReq)
    \/ DfDeleteAuditLogs(DelReq)
    \/ DfStoreError(DelReq)
    \/ DfS3(DelReq)
    \/ DfAudit(DelReq)
    \/ AccStart(AccReq)
    \/ AccFindFiles(AccReq)
    \/ AccDeleteShareLinks(AccReq)
    \/ AccDeleteUserShares(AccReq)
    \/ AccDeleteAuditLogs(AccReq)
    \/ AccAnonymize(AccReq)
    \/ AccDeleteFiles(AccReq)
    \/ AccDeleteUser(AccReq)
    \/ AccCommit(AccReq)
    \/ AccStoreError(AccReq)
    \/ AccRespond(AccReq)

SpecCascade == InitCascade /\ [][NextCascade]_vars
\* What the account-deletion request works on, once it has committed.
AccUser == req[AccReq].user
AccCommitted == pc[AccReq] \in {"accRespond", "done"} /\ pre[AccReq] # NoStore
AccCommits == pc[AccReq] = "accCommit" /\ pc'[AccReq] = "accRespond"
DelFile == req[DelReq].fileId
DelReturned == req[DelReq].step = 4

\* C4: deleteFile is all-or-nothing: when one of its four delete steps
\* fails, the store is left exactly as it was before the call.
C4_DeleteFileAllOrNothing ==
    (/\ pc[DelReq] = "done"
     /\ DelFile # Absent
     /\ req[DelReq].status = 500
     /\ req[DelReq].step < 4
     /\ pc[AccReq] = "idle")
    => TheStore = pre[DelReq]

\* C5: no state a concurrent reader can see, in between the steps of a file
\* deletion or an account deletion, has a LinkShare or UserShare whose File
\* is already deleted.
C5_NoIntermediateState ==
    /\ \A l \in shareLinks : getFileById(files, l.fileId) # NoFile
    /\ \A s \in userShares : getFileById(files, s.fileId) # NoFile

DelGone ==
    DelReturned =>
        /\ \A d \in pre[DelReq].files : d.id = DelFile => d.id \notin Ids(files)
        /\ \A d \in pre[DelReq].shareLinks :
              d.fileId = DelFile => d.id \notin Ids(shareLinks)
        /\ \A d \in pre[DelReq].userShares :
              d.fileId = DelFile => d.id \notin Ids(userShares)
        /\ \A d \in pre[DelReq].auditLogs :
              d.fileId = DelFile => d.id \notin Ids(auditLogs)

DelStepOf == [dfFile |-> "files", dfLinks |-> "shareLinks",
              dfShares |-> "userShares", dfAudits |-> "auditLogs"]

DelCountsExact ==
    (/\ pc[DelReq] \in DOMAIN DelStepOf
     /\ req'[DelReq].step = req[DelReq].step + 1)
    => req'[DelReq].counts[DelStepOf[pc[DelReq]]] =
          Cardinality(TheStore[DelStepOf[pc[DelReq]]])
              - Cardinality(TheStore'[DelStepOf[pc[DelReq]]])

C7_AbortNoEffect ==
    /\ [][(pc'[AccReq] # pc[AccReq] /\ ~AccCommits) => UNCHANGED store]_vars
    /\ [](req[AccReq].status = 500 =>
             /\ pc[AccReq] = "done"
             /\ req[AccReq].counts = NoCounts
             /\ pre[AccReq] = NoStore
             /\ ~txn.open)

C7_Witness ==
    /\ req[AccReq].status = 500
    /\ req[AccReq].step >= 3
    /\ \E s \in userShares : s.ownerId = AccUser

\* C8: after a successful account deletion of u the user record, every File
\* owned by u, every LinkShare and UserShare with ownerId u and every audit
\* entry on a file of u (also the entries whose actor is u) are gone.
C8_OwnerDataGone ==
    AccCommitted =>
        LET snap == pre[AccReq]
            own == {f.id : f \in {g \in snap.files : g.ownerId = AccUser}}
        IN /\ \A x \in users : x.id # AccUser
           /\ \A f \in snap.files : f.ownerId = AccUser => f.id \notin Ids(files)
           /\ \A l \in snap.shareLinks :
                 l.ownerId = AccUser => l.id \notin Ids(shareLinks)
           /\ \A s \in snap.userShares :
                 s.ownerId = AccUser => s.id \notin Ids(userShares)
           /\ \A a \in snap.auditLogs : a.fileId \in own => a.id \notin Ids(auditLogs)

C8_Witness ==
    /\ AccCommitted
    /\ \E a \in pre[AccReq].auditLogs :
          /\ a.userId = AccUser
          /\ \E f \in pre[AccReq].files : f.ownerId = AccUser /\ f.id = a.fileId

\* C9: the commit of an account deletion of u rewrites every audit entry with
\* userId u on a file that is not u's to userId null and username
\* "[Deleted User]", other fields unchanged; it leaves entries of other
\* actors on other users' files as they are; auditLogsAnonymized is the
\* number of entries rewritten.
C9_AnonymizeSelective ==
    [][AccCommits =>
          LET own == {f.id : f \in {g \in txn.snap.files : g.ownerId = AccUser}}
              anon(a) == [a EXCEPT !.userId = NullUser, !.username = DeletedUser]
          IN
          /\ \A a \in txn.snap.auditLogs :
                (a.userId = AccUser /\ a.fileId \notin own)
                => anon(a) \in auditLogs' /\ a \notin auditLogs'
          /\ \A a \in auditLogs :
                (a.userId # AccUser /\ a.fileId \notin own) => a \in auditLogs'
          /\ req[AccReq].counts.auditLogsAnonymized =
                Cardinality({a \in auditLogs :
                                a \notin auditLogs' /\ anon(a) \in auditLogs'})
    ]_vars

C9_Witness ==
    /\ pc[AccReq] = "accRespond"
    /\ req[AccReq].counts.auditLogsAnonymized >= 1
    /\ \E a \in pre[AccReq].auditLogs :
          /\ a.userId = AccUser
          /\ a.fileId = FileOf[Other(AccUser)]
          /\ [a EXCEPT !.userId = NullUser, !.username = DeletedUser] \in auditLogs

\* C10: no step of an account deletion of u removes or changes a UserShare
\* in which u is only the recipient.
C10_RecipientSharesKept ==
    [][pc'[AccReq] # pc[AccReq] =>
          \A s \in userShares :
              (s.recipientId = req'[AccReq].user /\ s.ownerId # req'[AccReq].user)
              => s \in userShares'
    ]_vars

C10_Witness ==
    /\ AccCommitted
    /\ \E s \in userShares : s.recipientId = AccUser /\ s.isActive

\* ------------------------------------------------- expiry and validation
Downloaders == 1..NumDl
ListReq == NumDl + 1    \* the GET /api/share/shared-with-me request
RevokeReq == NumDl + 2  \* the PATCH /api/share/user/:shareId/revoke request

\* find({recipientId, isActive: true})
getFilesSharedWithUser(shares, recipientId) ==
    {s \in shares : s.recipientId = recipientId /\ s.isActive}

\* getFilesSharedWithUserEnriched.  The handler then treats every share it
\* returned alike and independently (Promise.all); the request follows one.
SwStart(r) ==
    /\ pc[r] = "idle"
    /\ \E u \in Users :
          LET m == getFilesSharedWithUser(userShares, u) IN
          IF m = {}
          THEN /\ req' = [req EXCEPT ![r] = [NoReq EXCEPT !.user = u, !.status = 200]]
               /\ pc' = [pc EXCEPT ![r] = "done"]
          ELSE /\ \E sh \in m :
                     req' = [req EXCEPT ![r] = [NoReq EXCEPT !.user = u, !.share = sh,
                                                      !.fileId = sh.fileId]]
               /\ pc' = [pc EXCEPT ![r] = "swFile"]
    /\ UNCHANGED <<store, nextId, now, pre, grants, txn>>

\* getFileById(share.fileId): a share whose file is gone is filtered out of
\* the answer, after it has been validated like the others.
SwFile(r) ==
    /\ pc[r] = "swFile"
    /\ pc' = [pc EXCEPT ![r] = "swValidate"]
    /\ req' = [req EXCEPT ![r].step =
                  IF getFileById(files, req[r].fileId) = NoFile THEN 0 ELSE 1]
    /\ UNCHANGED <<store, nextId, now, pre, grants, txn>>

\* isValid = validateUserShare(share._id); 200 with isExpired = !isValid.
SwValidate(r) ==
    /\ pc[r] = "swValidate"
    /\ req' = [req EXCEPT ![r].at = now, ![r].status = 200,
                          ![r].valid = validateUserShare(userShares,
                                                         req[r].share.id, now)]
    /\ userShares' = sharesAfterValidate(userShares, req[r].share.id, now)
    /\ pc' = [pc EXCEPT ![r] = "done"]
    /\ UNCHANGED <<users, files, shareLinks, auditLogs, nextId, now, pre,
                   grants, txn>>

\* PATCH /user/:shareId/revoke: findOne({_id}), getFileById, ownership.
RvStart(r) ==
    /\ pc[r] = "idle"
    /\ \E u \in Users, id \in Ids(userShares) \cup {Absent} :
          LET m == {s \in userShares : s.id = id}
              sh == IF m = {} THEN NoShare ELSE CHOOSE s \in m : TRUE
              file == getFileById(files, sh.fileId)
          IN IF sh = NoShare \/ file = NoFile
             THEN /\ req' = [req EXCEPT ![r] = [NoReq EXCEPT !.status = 404]]
                  /\ pc' = [pc EXCEPT ![r] = "done"]
             ELSE IF file.ownerId # u
             THEN /\ req' = [req EXCEPT ![r] = [NoReq EXCEPT !.status = 403]]
                  /\ pc' = [pc EXCEPT ![r] = "done"]
             ELSE /\ req' = [req EXCEPT ![r] = [NoReq EXCEPT !.user = u, !.share = sh,
                                                            !.fileId = file.id]]
                  /\ pc' = [pc EXCEPT ![r] = "rvDeactivate"]
    /\ UNCHANGED <<store, nextId, now, pre, grants, txn>>

\* deactivateUserShare(shareId)
RvDeactivate(r) ==
    /\ pc[r] = "rvDeactivate"
    /\ Unlocked("userShares", {s \in userShares : s.id = req[r].share.id})
    /\ userShares' = deactivateUserShare(userShares, req[r].share.id)
    /\ req' = [req EXCEPT ![r].step = 1]
    /\ pc' = [pc EXCEPT ![r] = "rvAudit"]
    /\ UNCHANGED <<users, files, shareLinks, auditLogs, nextId, now, pre,
                   grants, txn>>

\* await createAuditLog(SHARE_REVOKED), then 200.
RvAudit(r) ==
    /\ pc[r] = "rvAudit"
    /\ auditLogs' = createAuditLog(auditLogs, nextId, req[r].fileId,
                                   "SHARE_REVOKED", req[r].user)
    /\ nextId' = nextId + 1
    /\ req' = [req EXCEPT ![r].status = 200]
    /\ pc' = [pc EXCEPT ![r] = "done"]
    /\ UNCHANGED <<users, files, shareLinks, userShares, now, pre, grants, txn>>

\* The awaited createAuditLog throws: the catch block answers 500.
RvAuditFails(r) ==
    /\ pc[r] = "rvAudit"
    /\ req' = [req EXCEPT ![r].status = 500]
    /\ pc' = [pc EXCEPT ![r] = "done"]
    /\ UNCHANGED <<store, nextId, now, pre, grants, txn>>

\* The wall clock advances.
Tick ==
    /\ now < MaxTime
    /\ now' = now + 1
    /\ UNCHANGED <<store, nextId, pc, req, pre, grants, txn>>

\* One share of file 1 from u1 to u2, as createUserShare stores it: at least
\* one of expiresAt and maxAccessCount, accessCount 0, active.
InitExpiry ==
    /\ users = {[id |-> u, username |-> JwtName[u]] : u \in Users}
    /\ files = {[id |-> 1, ownerId |-> "u1"]}
    /\ shareLinks = {}
    /\ \E e \in {Absent, MaxTime - 1}, n \in {Absent} \cup (1..MaxCount) :
          /\ e # Absent \/ n # Absent
          /\ userShares = {newUserShare(2, 1, "u1", "u2", e, n)}
    /\ auditLogs = {}
    /\ nextId = 3
    /\ now = 1
    /\ pc = [r \in Downloaders \cup {ListReq, RevokeReq} |-> "idle"]
    /\ req = [r \in Downloaders \cup {ListReq, RevokeReq} |-> NoReq]
    /\ pre = [r \in Downloaders \cup {ListReq, RevokeReq} |-> NoStore]
    /\ grants = [i \in {2} |-> 0]
    /\ txn = NoTxn

NextExpiry ==
    \/ \E r \in Downloaders :
          \/ DlStart(r)
          \/ DlGetShare(r)
          \/ DlValidate(r)
          \/ DlIncrement(r)
          \/ DlRespond(r)
          \/ DlUrlFails(r)
          \/ DlAudit(r)
    \/ SwStart(ListReq)
    \/ SwFile(ListReq)
    \/ SwValidate(ListReq)
    \/ RvStart(RevokeReq)
    \/ RvDeactivate(RevokeReq)
    \/ RvAudit(RevokeReq)
    \/ RvAuditFails(RevokeReq)
    \/ Tick

SpecExpiry == InitExpiry /\ [][NextExpiry]_vars

\* C11: a download whose validation runs when the share's expiresAt is not
\* later than the clock is rejected with 403 whatever accessCount and
\* maxAccessCount are, and writes nothing; an accessCount only ever changes
\* by the increment of a request that validated the share before expiresAt.
C11_ExpiredRejected ==
    [][/\ \A r \in Downloaders :
             (/\ pc[r] = "dlValidate"
              /\ pc'[r] # "dlValidate"
              /\ \E s \in userShares : /\ s.id = req[r].share.id
                                       /\ s.expiresAt # Absent
                                       /\ s.expiresAt <= now)
             => /\ pc'[r] = "done"
                /\ req'[r].status = 403
                /\ userShares' = userShares
       /\ \A s \in userShares, n \in userShares' :
             (n.id = s.id /\ n.accessCount # s.accessCount)
             => \E r \in Downloaders :
                   /\ pc[r] = "dlIncrement"
                   /\ req[r].share.id = s.id
                   /\ req[r].valid
                   /\ s.expiresAt = Absent \/ req[r].at < s.expiresAt
    ]_vars

C11_Witness ==
    \E r \in Downloaders, s \in userShares :
        /\ pc[r] = "done"
        /\ req[r].status = 403
        /\ s.id = req[r].share.id
        /\ s.isActive
        /\ s.expiresAt # Absent
        /\ s.expiresAt <= req[r].at
        /\ s.maxAccessCount # Absent
        /\ s.accessCount > 0
        /\ s.accessCount < s.maxAccessCount

\* C12: once every download request has answered, a share's accessCount is
\* the number of responses that carried a download URL: a request that did
\* not end in a grant has not changed the counter.
C12_CountEqualsGrants ==
    (\A r \in Reqs : pc[r] \in {"idle", "done"})
    => \A s \in userShares : s.accessCount = grants[s.id]

\* C13: validateUserShare(shareId) at time t is true exactly when the share
\* exists, isActive is true, expiresAt is absent or t < expiresAt, and
\* maxAccessCount is absent or accessCount < maxAccessCount.
C13_ValidityPredicate ==
    \A id \in Ids(userShares) \cup {Absent}, t \in 1..(MaxTime + 1) :
        validateUserShare(userShares, id, t)
        <=> \E s \in userShares :
               /\ s.id = id
               /\ s.isActive = TRUE
               /\ s.expiresAt = Absent \/ t < s.expiresAt
               /\ s.maxAccessCount = Absent \/ s.accessCount < s.maxAccessCount

C13_Witness ==
    /\ pc[ListReq] = "done"
    /\ req[ListReq].at > 0
    /\ ~req[ListReq].valid
    /\ \E s \in userShares :
          /\ s.id = req[ListReq].share.id
          /\ s.isActive
          /\ s.expiresAt # Absent
          /\ req[ListReq].at >= s.expiresAt
          /\ s.maxAccessCount # Absent
          /\ s.accessCount < s.maxAccessCount

\* C14: a validation step (of a download or of the shared-with-me listing)
\* changes no stored record, and the verdict depends on the share and the
\* time only: a step that leaves both as they are leaves the verdict as it is.
C14_ValidationReadOnly ==
    [][/\ \A r \in DOMAIN pc :
             (pc[r] \in {"dlValidate", "swValidate"} /\ pc'[r] # pc[r])
             => store' = store
       /\ \A s \in userShares :
             (s \in userShares' /\ now' = now)
             => (validateUserShare(userShares, s.id, now)
                 <=> validateUserShare(userShares', s.id, now'))
    ]_vars

C14_Witness ==
    \E d \in Downloaders :
        /\ pc[ListReq] = "done"
        /\ pc[d] = "dlIncrement"
        /\ req[d].share.id = req[ListReq].share.id
        /\ req[d].at = req[ListReq].at
        /\ req[d].at >= MaxTime - 1
        /\ req[d].valid
        /\ req[ListReq].valid
        /\ \E s \in userShares : s.id = req[d].share.id /\ s.expiresAt = Absent

\* ------------------------------------------- share creation, one at a time
\* The owner's client sends its POST /api/share/create requests one after the
\* other: a request starts its handler only when no other one is inside it
\* (the audit entry of the previous request may still be pending).
Alone(r) == \A q \in Creators \ {r} : pc[q] \in {"idle", "csAudit", "done"}

NextCreateSerial ==
    \E r \in Creators :
        \/ Alone(r) /\ CsStart(r)
        \/ Alone(r) /\ CsLink(r)
        \/ Alone(r) /\ CsRecipient(r)
        \/ Alone(r) /\ CsFind(r)
        \/ Alone(r) /\ CsDeactivate(r)
        \/ Alone(r) /\ CsInsert(r)
        \/ Alone(r) /\ CsAudit(r)

SpecCreateSerial == InitCreate /\ [][NextCreateSerial]_vars

\* C15: with one creator running at a time, createUserShare deactivates the
\* prior active share of the pair before it inserts the new one: when the
\* insert is about to run no share of the pair is active, no state has two
\* active shares of a pair, and after the insert exactly one share of the
\* pair is active, the new one.
C15_DeactivateBeforeInsert ==
    /\ [](\A r \in Creators :
             pc[r] = "csInsert"
             => ~\E s \in userShares : /\ s.fileId = req[r].fileId
                                       /\ s.recipientId = req[r].recipient
                                       /\ s.isActive)
    /\ [](\A s \in userShares :
             s.isActive
             => ~\E t \in userShares : /\ t.id # s.id
                                       /\ t.fileId = s.fileId
                                       /\ t.recipientId = s.recipientId
                                       /\ t.isActive)
    /\ [][\A r \in Creators :
             (pc[r] = "csInsert" /\ pc'[r] = "csAudit")
             => /\ req'[r].share.id \notin Ids(userShares)
                /\ {s.id : s \in {t \in userShares' : /\ t.fileId = req[r].fileId
                                                      /\ t.recipientId = req[r].recipient
                                                      /\ t.isActive}}
                      = {req'[r].share.id}
      ]_vars

C15_Witness ==
    \E r \in Creators, old \in userShares, new \in userShares :
        /\ pc[r] \in {"csAudit", "done"}
        /\ req[r].status = 201
        /\ new.id = req[r].share.id
        /\ new.isActive
        /\ old.id < new.id
        /\ old.fileId = new.fileId
        /\ old.recipientId = new.recipientId
        /\ ~old.isActive

\* C16: a failure of the audit-log write does not fail the operation it
\* accompanies: a link download that has incremented the counter answers 200
\* with the download URL, also when its createAuditLog throws.
C16_AuditFailureAdvisory ==
    \A r \in Reqs :
        (pc[r] = "done" /\ req[r].step = 1) => req[r].status = 200

\* C17: in DELETE /api/files/:fileId a failure of the object-storage
\* deletion, which runs after the cascade, is not reported to the user as a
\* failed deletion: once deleteFile has returned the request answers 200.
C17_StorageFailureNotBlocking ==
    (DelReturned /\ pc[DelReq] \in {"dfAudit", "done"})
    => req[DelReq].status = 200

\* C18: once the requests have answered without an error and their audit
\* entries are written, every LinkShare, UserShare and AuditLogEntry with a
\* fileId refers to a File record that exists.
C18_ReferentialIntegrity ==
    (\A r \in {DelReq, AccReq} : pc[r] \in {"idle", "done"} /\ req[r].status # 500)
    => \A d \in shareLinks \cup userShares \cup auditLogs :
          d.fileId # Absent => \E f \in files : f.id = d.fileId

\* ------------------------------------------------ PATCH /api/auth/profile
RenReq == "ren"   \* the PATCH /api/auth/profile request
NewName == "carol"   \* a username nobody carries yet

\* findOne({username, _id: {$ne: userId}})
usernameTaken(us, u, name) == \E x \in us : x.username = name /\ x.id # u
\* findOneAndUpdate({_id}, {$set: {username}})
renameUser(us, u, name) ==
    {IF x.id = u THEN [x EXCEPT !.username = name] ELSE x : x \in us}
\* The userId filter left out of the propagation.
renameAuditLogs_Everyone(logs, u, name) ==
    {[a EXCEPT !.username = name] : a \in logs}
\* auditLogs.updateMany({userId}, {$set: {username}})
renameAuditLogs(logs, u, name) ==
    {IF a.userId = u THEN [a EXCEPT !.username = name] ELSE a : a \in logs}

\* getUserById and verifyPassword; the new username comes with the request.
RnStart(r) ==
    /\ pc[r] = "idle"
    /\ \E u \in Users, passwordOk \in BOOLEAN :
       \E name \in {NewName, JwtName[Other(u)]} :
          IF ~getUserById(users, u)
          THEN /\ req' = [req EXCEPT ![r] = [NoReq EXCEPT !.status = 404]]
               /\ pc' = [pc EXCEPT ![r] = "done"]
          ELSE IF ~passwordOk
          THEN /\ req' = [req EXCEPT ![r] = [NoReq EXCEPT !.status = 401]]
               /\ pc' = [pc EXCEPT ![r] = "done"]
          ELSE /\ req' = [req EXCEPT ![r] = [NoReq EXCEPT !.user = u, !.name = name]]
               /\ pc' = [pc EXCEPT ![r] = "rnCheck"]
    /\ UNCHANGED <<store, nextId, now, pre, grants, txn>>

\* updateUserProfile: the uniqueness check; 'Username already exists' is 409.
RnCheck(r) ==
    /\ pc[r] = "rnCheck"
    /\ IF usernameTaken(users, req[r].user, req[r].name)
       THEN /\ req' = [req EXCEPT ![r].status = 409]
            /\ pc' = [pc EXCEPT ![r] = "done"]
       ELSE /\ req' = req
            /\ pc' = [pc EXCEPT ![r] = "rnUser"]
    /\ UNCHANGED <<store, nextId, now, pre, grants, txn>>

\* updateUserProfile: findOneAndUpdate; no result throws 'User not found' (500).
RnUpdateUser(r) ==
    /\ pc[r] = "rnUser"
    /\ Unlocked("users", userById(users, req[r].user))
    /\ IF ~getUserById(users, req[r].user)
       THEN /\ req' = [req EXCEPT ![r].status = 500]
            /\ pc' = [pc EXCEPT ![r] = "done"]
            /\ users' = users
       ELSE /\ users' = renameUser(users, req[r].user, req[r].name)
            /\ req' = [req EXCEPT ![r].step = 1]
            /\ pc' = [pc EXCEPT ![r] = "rnAudits"]
    /\ UNCHANGED <<files, shareLinks, userShares, auditLogs, nextId, now, pre,
                   grants, txn>>

\* updateUserProfile: the propagation to the audit entries; then 200.
RnUpdateAudits(r) ==
    /\ pc[r] = "rnAudits"
    /\ Unlocked("auditLogs", {a \in auditLogs : a.userId = req[r].user})
    /\ auditLogs' = renameAuditLogs(auditLogs, req[r].user, req[r].name)
    /\ req' = [req EXCEPT ![r].step = 2, ![r].status = 200]
    /\ pc' = [pc EXCEPT ![r] = "done"]
    /\ UNCHANGED <<users, files, shareLinks, userShares, nextId, now, pre,
                   grants, txn>>

\* A store operation of updateUserProfile throws: the catch block answers 500.
RnStoreError(r) ==
    /\ pc[r] \in {"rnCheck", "rnUser", "rnAudits"}
    /\ req' = [req EXCEPT ![r].status = 500]
    /\ pc' = [pc EXCEPT ![r] = "done"]
    /\ UNCHANGED <<store, nextId, now, pre, grants, txn>>

\* The audit trail when a profile update runs next to the two deletions:
\* per user one file, and audit entries as in the cascades' store.
InitAudit ==
    /\ users = {[id |-> u, username |-> JwtName[u]] : u \in Users}
    /\ files = {[id |-> FileOf[u], ownerId |-> u] : u \in Users}
    /\ shareLinks = {}
    /\ userShares = {}
    /\ \E A \in SUBSET CandidateAudits :
          /\ Cardinality(A) <= MaxDocs
          /\ auditLogs = A
    /\ nextId = FirstDocId + 30
    /\ now = 1
    /\ pc = [r \in {DelReq, AccReq, RenReq} |-> "idle"]
    /\ req = [r \in {DelReq, AccReq, RenReq} |-> NoReq]
    /\ pre = [r \in {DelReq, AccReq, RenReq} |-> NoStore]
    /\ grants = [i \in {} |-> 0]
    /\ txn = NoTxn

NextAudit ==
    \/ NextCascade
    \/ RnStart(RenReq)
    \/ RnCheck(RenReq)
    \/ RnUpdateUser(RenReq)
    \/ RnUpdateAudits(RenReq)
    \/ RnStoreError(RenReq)

SpecAudit == InitAudit /\ [][NextAudit]_vars

\* C19: once a rename through updateUserProfile has answered 200, every
\* audit entry whose userId is that user carries the new username, also the
\* entries written by requests that still use a credential issued before it.
C19_RenamePropagated ==
    (pc[RenReq] = "done" /\ req[RenReq].status = 200)
    => \A a \in auditLogs :
          a.userId = req[RenReq].user => a.username = req[RenReq].name

\* C20 as stated: an audit entry that is still stored is as it was written,
\* or differs from that only by the anonymization of its actor.
C20_OnlyAnonymized ==
    \A a \in auditLogs :
        a.id \in Ids(CandidateAudits)
        => \E c \in CandidateAudits :
              \/ a = c
              \/ a = [c EXCEPT !.userId = NullUser, !.username = DeletedUser]

\* C20 (amended): a step changes an existing audit entry only by the actor
\* anonymization of an account deletion or by the username propagation of a
\* profile update (username only, entries of that user only), and removes it
\* only together with the File it refers to: in the file's deletion, or in
\* the account deletion of the file's owner, never in that of its actor.
C20_AuditFrame ==
    [][\A a \in auditLogs :
          \/ a \in auditLogs'
          \/ /\ AccCommits
             /\ a.userId = AccUser
             /\ [a EXCEPT !.userId = NullUser, !.username = DeletedUser] \in auditLogs'
          \/ /\ pc[RenReq] = "rnAudits"
             /\ pc'[RenReq] = "done"
             /\ a.userId = req[RenReq].user
             /\ [a EXCEPT !.username = req[RenReq].name] \in auditLogs'
          \/ /\ a.id \notin Ids(auditLogs')
             /\ a.fileId # Absent
             /\ \A f \in files' : f.id # a.fileId
             /\ \/ pc[DelReq] = "dfAudits" /\ a.fileId = DelFile
                \/ /\ AccCommits
                   /\ \E f \in files : f.id = a.fileId /\ f.ownerId = AccUser
      ]_vars

C20_Witness ==
    /\ AccCommitted
    /\ pc[RenReq] = "done"
    /\ req[RenReq].status = 200
    /\ \E a \in auditLogs : a.id \in Ids(CandidateAudits) /\ a.userId = NullUser
    /\ \E a \in auditLogs :
          /\ a.id \in Ids(CandidateAudits)
          /\ a.userId = req[RenReq].user
          /\ a.username = NewName

\* ------------------------------- GET /api/share/file/:fileId/active-shares
ActiveReq == "act"   \* the GET /api/share/file/:fileId/active-shares request

\* An expiresAt equal to now still listed ($gte where $gt is meant).
getActiveUserSharesByFile_Gte(shares, fileId, t) ==
    {s \in shares : /\ s.fileId = fileId
                    /\ s.isActive
                    /\ s.expiresAt = Absent \/ s.expiresAt >= t
                    /\ s.maxAccessCount = Absent \/ s.accessCount < s.maxAccessCount}
\* aggregate: $match {fileId, isActive: true}, then $match $expr:
\* expiresAt missing or expiresAt > now, and maxAccessCount missing or
\* accessCount < maxAccessCount.
getActiveUserSharesByFile(shares, fileId, t) ==
    {s \in shares : /\ s.fileId = fileId
                    /\ s.isActive
                    /\ s.expiresAt = Absent \/ s.expiresAt > t
                    /\ s.maxAccessCount = Absent \/ s.accessCount < s.maxAccessCount}

\* getFileById: a missing file is 404 'File not found', a file of another
\* owner is 403 'Unauthorized: You do not own this file'.
AsStart(r) ==
    /\ pc[r] = "idle"
    /\ \E u \in Users, f \in Ids(files) \cup {Absent} :
          LET file == getFileById(files, f) IN
          /\ req' = [req EXCEPT ![r] =
                        [NoReq EXCEPT !.user = u, !.fileId = f,
                                      !.status = IF file = NoFile THEN 404
                                                 ELSE IF file.ownerId # u THEN 403
                                                 ELSE 0]]
          /\ pc' = [pc EXCEPT ![r] =
                       IF file = NoFile \/ file.ownerId # u THEN "done" ELSE "asLinks"]
    /\ UNCHANGED <<store, nextId, now, pre, grants, txn>>

\* getActiveShareLinksByFile: a read of the share links.
AsLinks(r) ==
    /\ pc[r] = "asLinks"
    /\ pc' = [pc EXCEPT ![r] = "asShares"]
    /\ UNCHANGED <<store, nextId, now, req, pre, grants, txn>>

\* getActiveUserSharesByFile (now = new Date(), then the aggregate); 200.
AsShares(r) ==
    /\ pc[r] = "asShares"
    /\ req' = [req EXCEPT ![r].at = now, ![r].status = 200,
                          ![r].list = Ids(getActiveUserSharesByFile(
                                              userShares, req[r].fileId, now))]
    /\ pc' = [pc EXCEPT ![r] = "done"]
    /\ UNCHANGED <<store, nextId, now, pre, grants, txn>>

\* User shares that can be stored: of either file to the other user, active
\* or revoked, with either or both expiration dimensions, and a counter that
\* downloads have moved (concurrent downloads move it past maxAccessCount).
CandidateStates ==
    {[NoShare EXCEPT
         !.id = FirstDocId + 100
                + ((((FileOf[u] * 2 + (IF act THEN 1 ELSE 0)) * 2
                     + (IF e = Absent THEN 0 ELSE 1)) * (MaxCount + 1) + n)
                   * (MaxCount + 1) + c),
         !.fileId = FileOf[u], !.ownerId = u, !.recipientId = Other(u),
         !.expiresAt = e, !.maxAccessCount = n, !.accessCount = c,
         !.isActive = act]
        : u \in Users, act \in BOOLEAN, e \in {Absent, MaxTime - 1},
          n \in {Absent} \cup (1..MaxCount), c \in 0..MaxCount}

InitActive ==
    /\ users = {[id |-> u, username |-> JwtName[u]] : u \in Users}
    /\ files = {[id |-> FileOf[u], ownerId |-> u] : u \in Users}
    /\ shareLinks = {}
    /\ \E a, b \in {sh \in CandidateStates :
                       sh.expiresAt # Absent \/ sh.maxAccessCount # Absent} :
          userShares = {a, b}
    /\ auditLogs = {}
    /\ nextId = FirstDocId + 300
    /\ now = 1
    /\ pc = [r \in {ActiveReq} |-> "idle"]
    /\ req = [r \in {ActiveReq} |-> NoReq]
    /\ pre = [r \in {ActiveReq} |-> NoStore]
    /\ grants = [i \in {} |-> 0]
    /\ txn = NoTxn

NextActive ==
    \/ AsStart(ActiveReq)
    \/ AsLinks(ActiveReq)
    \/ AsShares(ActiveReq)
    \/ Tick

SpecActive == InitActive /\ [][NextActive]_vars

\* C21: the active-shares request for a file that exists but is owned by
\* someone else is answered exactly as a request for a file id that does not
\* exist, with 404 'File not found'.
C21_NotOwnedIsNotFound ==
    \A f \in files :
        (/\ pc[ActiveReq] = "done"
         /\ req[ActiveReq].fileId = f.id
         /\ req[ActiveReq].user # f.ownerId)
        => req[ActiveReq].status = 404

\* C22: a rejected consumption of a user share is answered 403 with the
\* same generic message whether the share is time-expired, count-exhausted
\* or revoked.
C22_RejectionUniform ==
    \A r \in Downloaders : \A s \in userShares :
        (/\ pc[r] = "done"
         /\ req[r].fileId = s.fileId
         /\ req[r].user = s.recipientId
         /\ req[r].status \in {403, 404})
        => req[r].status = 403

\* ------------------------------------------------- GET /api/share/:token
LvStart(r) ==
    /\ pc[r] = "idle"
    /\ \E token \in {l.id : l \in shareLinks} \cup {Absent} :
          req' = [req EXCEPT ![r] = [NoReq EXCEPT !.share.id = token]]
    /\ pc' = [pc EXCEPT ![r] = "lvValidate"]
    /\ UNCHANGED <<store, nextId, now, pre, grants, txn>>

LvValidate(r) ==
    /\ pc[r] = "lvValidate"
    /\ pc' = [pc EXCEPT ![r] =
                 IF validateShareLink(shareLinks, req[r].share.id, now)
                 THEN "lvGetLink" ELSE "lvProbe"]
    /\ UNCHANGED <<store, nextId, now, req, pre, grants, txn>>

\* Rejected: look the link up for its fileId, then log the probe.
LvProbe(r) ==
    /\ pc[r] = "lvProbe"
    /\ req' = [req EXCEPT ![r].fileId =
                  getShareLinkByToken(shareLinks, req[r].share.id).fileId]
    /\ pc' = [pc EXCEPT ![r] = "lvProbeAudit"]
    /\ UNCHANGED <<store, nextId, now, pre, grants, txn>>

\* await createAuditLog(EXPIRED_LINK_ATTEMPT), then 403.
LvProbeAudit(r) ==
    /\ pc[r] = "lvProbeAudit"
    /\ auditLogs' = createAuditLog(auditLogs, nextId, req[r].fileId,
                                   "EXPIRED_LINK_ATTEMPT", NoUser)
    /\ nextId' = nextId + 1
    /\ req' = [req EXCEPT ![r].status = 403]
    /\ pc' = [pc EXCEPT ![r] = "done"]
    /\ UNCHANGED <<users, files, shareLinks, userShares, now, pre, grants, txn>>

\* The awaited createAuditLog throws: the catch block answers 500.
LvAuditFails(r) ==
    /\ pc[r] = "lvProbeAudit"
    /\ req' = [req EXCEPT ![r].status = 500]
    /\ pc' = [pc EXCEPT ![r] = "done"]
    /\ UNCHANGED <<store, nextId, now, pre, grants, txn>>

LvGetLink(r) ==
    /\ pc[r] = "lvGetLink"
    /\ LET l == getShareLinkByToken(shareLinks, req[r].share.id) IN
          IF l = NoShare
          THEN /\ req' = [req EXCEPT ![r].status = 500]
               /\ pc' = [pc EXCEPT ![r] = "done"]
          ELSE /\ req' = [req EXCEPT ![r].share = l, ![r].fileId = l.fileId]
               /\ pc' = [pc EXCEPT ![r] = "lvGetFile"]
    /\ UNCHANGED <<store, nextId, now, pre, grants, txn>>

\* getFileById, then 200 with the file info and the link's accessCount as
\* read; no store operation follows.
LvGetFile(r) ==
    /\ pc[r] = "lvGetFile"
    /\ req' = [req EXCEPT ![r].status =
                  IF getFileById(files, req[r].fileId) = NoFile THEN 404 ELSE 200]
    /\ pc' = [pc EXCEPT ![r] = "done"]
    /\ UNCHANGED <<store, nextId, now, pre, grants, txn>>

\* Views and downloads of one public link, by NumReqs concurrent requests.
NextLinkView ==
    \E r \in Reqs :
        \/ LvStart(r)
        \/ LvValidate(r)
        \/ LvProbe(r)
        \/ LvProbeAudit(r)
        \/ LvAuditFails(r)
        \/ LvGetLink(r)
        \/ LvGetFile(r)
        \/ LdStart(r)
        \/ LdValidate(r)
        \/ LdProbe(r)
        \/ LdProbeAudit(r)
        \/ LdAuditFails(r)
        \/ LdGetLink(r)
        \/ LdGetFile(r)
        \/ LdUrl(r)
        \/ LdIncrement(r)
        \/ LdRespond(r)

SpecLinkView == InitLinkDl /\ [][NextLinkView]_vars

\* The GET requests on link l that were answered 200.
ViewsGranted(l) ==
    {r \in Reqs : /\ pc[r] = "done"
                  /\ req[r].status = 200
                  /\ req[r].step = 0
                  /\ req[r].share.id = l.id}

\* C23: every successful GET /api/share/:token consumes one use, so a link
\* with maxAccessCount = N is never viewed successfully more than N times.
C23_ViewConsumesUse ==
    \A l \in shareLinks :
        l.maxAccessCount # Absent => Cardinality(ViewsGranted(l)) <= l.maxAccessCount

\* C24: every stored link share and user share has an expiresAt or a
\* maxAccessCount; a creation request goes past validation only with one of
\* them, and the step that answers 400 stores no share and deactivates none.
C24_AtLeastOneDimension ==
    /\ [](\A s \in userShares \cup shareLinks :
             s.expiresAt # Absent \/ s.maxAccessCount # Absent)
    /\ [](\A r \in Creators :
             pc[r] \in {"csRecipient", "csLink", "csFind", "csDeactivate", "csInsert"}
             => req[r].expiresAt # Absent \/ req[r].maxAccessCount # Absent)
    /\ [][\A r \in Creators :
             (req[r].status # 400 /\ req'[r].status = 400)
             => /\ userShares' = userShares
                /\ shareLinks' = shareLinks
      ]_vars

C24_Witness ==
    \E r \in Creators :
        /\ pc[r] = "done"
        /\ req[r].status = 400
        /\ req[r].user = NoUser
        /\ \E s \in userShares : s.isActive /\ s.expiresAt = Absent

\* ------------------------------------------------ POST /api/auth/register
\* The ids insertOne gives the new records, one per registration request.
NewUserIds == [r \in Creators |-> <<"u3", "u4", "u5", "u6">>[r]]
EmailOf == [u \in Users |-> IF u = "u1" THEN "u1@mail" ELSE "u2@mail"]
NewEmail == "carol@mail"

emailTaken(us, email) == \E x \in us : x.email = email

\* registerSchema.parse; createUser is called.
RgStart(r) ==
    /\ pc[r] = "idle"
    /\ \E name \in {JwtName["u1"], NewName}, email \in {EmailOf["u1"], NewEmail} :
          req' = [req EXCEPT ![r] = [NoReq EXCEPT !.name = name, !.email = email]]
    /\ pc' = [pc EXCEPT ![r] = "rgEmail"]
    /\ UNCHANGED <<store, nextId, now, pre, grants, txn>>

\* findOne({email}): 'Email already exists', answered 409.
RgCheckEmail(r) ==
    /\ pc[r] = "rgEmail"
    /\ IF emailTaken(users, req[r].email)
       THEN /\ req' = [req EXCEPT ![r].status = 409]
            /\ pc' = [pc EXCEPT ![r] = "done"]
       ELSE /\ req' = req
            /\ pc' = [pc EXCEPT ![r] = "rgUsername"]
    /\ UNCHANGED <<store, nextId, now, pre, grants, txn>>

\* findOne({username}): 'Username already exists', answered 409.
RgCheckUsername(r) ==
    /\ pc[r] = "rgUsername"
    /\ IF \E x \in users : x.username = req[r].name
       THEN /\ req' = [req EXCEPT ![r].status = 409]
            /\ pc' = [pc EXCEPT ![r] = "done"]
       ELSE /\ req' = req
            /\ pc' = [pc EXCEPT ![r] = "rgInsert"]
    /\ UNCHANGED <<store, nextId, now, pre, grants, txn>>

\* bcrypt.hash, then insertOne(newUser); 201.  The server creates no index:
\* in a database on which the index script was not run the insert succeeds
\* whatever the collection holds.
RgInsert(r) ==
    /\ pc[r] = "rgInsert"
    /\ users' = users \cup {[id |-> NewUserIds[r], username |-> req[r].name,
                             email |-> req[r].email]}
    /\ req' = [req EXCEPT ![r].status = 201, ![r].user = NewUserIds[r]]
    /\ pc' = [pc EXCEPT ![r] = "done"]
    /\ UNCHANGED <<files, shareLinks, userShares, auditLogs, nextId, now, pre,
                   grants, txn>>

\* In a database with the unique indexes on email and username, insertOne
\* of a taken email or username throws E11000 duplicate key; the message has
\* no 'already exists', the route answers 500 'Registration failed'.
RgDuplicateKey(r) ==
    /\ pc[r] = "rgInsert"
    /\ emailTaken(users, req[r].email) \/ usernameTaken(users, NoUser, req[r].name)
    /\ req' = [req EXCEPT ![r].status = 500]
    /\ pc' = [pc EXCEPT ![r] = "done"]
    /\ UNCHANGED <<store, nextId, now, pre, grants, txn>>

InitRegister ==
    /\ users \in {{}, {[id |-> "u1", username |-> JwtName["u1"],
                        email |-> EmailOf["u1"]]}}
    /\ files = {}
    /\ shareLinks = {}
    /\ userShares = {}
    /\ auditLogs = {}
    /\ nextId = FirstDocId
    /\ now = 1
    /\ pc = [r \in Creators |-> "idle"]
    /\ req = [r \in Creators |-> NoReq]
    /\ pre = [r \in Creators |-> NoStore]
    /\ grants = [i \in {} |-> 0]
    /\ txn = NoTxn

NextRegister ==
    \E r \in Creators :
        \/ RgStart(r)
        \/ RgCheckEmail(r)
        \/ RgCheckUsername(r)
        \/ RgInsert(r)
        \/ RgDuplicateKey(r)

SpecRegister == InitRegister /\ [][NextRegister]_vars

\* C25: no two user records share an email or a username, and a
\* registration whose email or username is taken is answered 409 'already
\* exists' without inserting, also when registrations run concurrently.
C25_UniqueEmailAndUsername ==
    /\ \A x, y \in users :
          (x.email = y.email \/ x.username = y.username) => x.id = y.id
    /\ \A r \in Creators : pc[r] = "done" => req[r].status \in {201, 409}

IsOwner(r) == \E f \in files : f.id = req[r].fileId /\ f.ownerId = req[r].user

OwnerReq == NumDl + 3   \* a request of the file's owner: create, revoke or revoke-all

\* revokeAllShareLinksByFile: every active link of the file is deactivated.
revokeAllShareLinksByFile(links, fileId) ==
    {IF l.fileId = fileId /\ l.isActive THEN [l EXCEPT !.isActive = FALSE] ELSE l
        : l \in links}
\* isActive flipped on every share of the file.
revokeAllUserSharesByFile_Flip(shares, fileId) ==
    {IF s.fileId = fileId THEN [s EXCEPT !.isActive = ~@] ELSE s : s \in shares}
\* updateMany({fileId, isActive: true}, {$set: {isActive: false}})
revokeAllUserSharesByFile(shares, fileId) ==
    {IF s.fileId = fileId /\ s.isActive THEN [s EXCEPT !.isActive = FALSE] ELSE s
        : s \in shares}

\* getFileById: 404 for a missing file, 403 for a file of another owner.
RaStart(r) ==
    /\ pc[r] = "idle"
    /\ \E u \in Users, f \in Ids(files) \cup {Absent} :
          LET file == getFileById(files, f) IN
          /\ req' = [req EXCEPT ![r] =
                        [NoReq EXCEPT !.user = u, !.fileId = f,
                                      !.status = IF file = NoFile THEN 404
                                                 ELSE IF file.ownerId # u THEN 403
                                                 ELSE 0]]
          /\ pc' = [pc EXCEPT ![r] =
                       IF file = NoFile \/ file.ownerId # u THEN "done" ELSE "raLinks"]
    /\ UNCHANGED <<store, nextId, now, pre, grants, txn>>

RaLinks(r) ==
    /\ pc[r] = "raLinks"
    /\ shareLinks' = revokeAllShareLinksByFile(shareLinks, req[r].fileId)
    /\ req' = [req EXCEPT ![r].step = 1]
    /\ pc' = [pc EXCEPT ![r] = "raShares"]
    /\ UNCHANGED <<users, files, userShares, auditLogs, nextId, now, pre,
                   grants, txn>>

RaShares(r) ==
    /\ pc[r] = "raShares"
    /\ userShares' = revokeAllUserSharesByFile(userShares, req[r].fileId)
    /\ req' = [req EXCEPT ![r].step = 2]
    /\ pc' = [pc EXCEPT ![r] = "raAudit"]
    /\ UNCHANGED <<users, files, shareLinks, auditLogs, nextId, now, pre,
                   grants, txn>>

\* await createAuditLog(SHARES_REVOKED_ALL), then 200.
RaAudit(r) ==
    /\ pc[r] = "raAudit"
    /\ auditLogs' = createAuditLog(auditLogs, nextId, req[r].fileId,
                                   "SHARES_REVOKED_ALL", req[r].user)
    /\ nextId' = nextId + 1
    /\ req' = [req EXCEPT ![r].status = 200]
    /\ pc' = [pc EXCEPT ![r] = "done"]
    /\ UNCHANGED <<users, files, shareLinks, userShares, now, pre, grants, txn>>

\* The awaited createAuditLog throws: the catch block answers 500.
RaAuditFails(r) ==
    /\ pc[r] = "raAudit"
    /\ req' = [req EXCEPT ![r].status = 500]
    /\ pc' = [pc EXCEPT ![r] = "done"]
    /\ UNCHANGED <<store, nextId, now, pre, grants, txn>>

\* The life of the shares of one file: consumed by NumDl downloads while
\* the owner creates a share (superseding the active one), revokes one or
\* revokes all, and time passes.  The store starts with the active share,
\* alone or after an earlier share of the pair was superseded or revoked.
LifeReqs == Downloaders \cup {OwnerReq}

InitLifecycle ==
    /\ users = {[id |-> u, username |-> JwtName[u]] : u \in Users}
    /\ files = {[id |-> 1, ownerId |-> "u1"]}
    /\ shareLinks = {}
    /\ \E e \in {Absent, MaxTime - 1}, n \in {Absent, MaxCount - 1},
          earlier \in BOOLEAN :
          /\ e # Absent \/ n # Absent
          /\ userShares =
                {newUserShare(3, 1, "u1", "u2", e, n)}
                \cup (IF earlier
                      THEN {[newUserShare(2, 1, "u1", "u2", MaxTime - 1, 1)
                                EXCEPT !.isActive = FALSE]}
                      ELSE {})
    /\ auditLogs = {}
    /\ nextId = 4
    /\ now = 1
    /\ pc = [r \in LifeReqs |-> "idle"]
    /\ req = [r \in LifeReqs |-> NoReq]
    /\ pre = [r \in LifeReqs |-> NoStore]
    /\ grants = [i \in 2..(4 + Cardinality(LifeReqs)) |-> 0]
    /\ txn = NoTxn

NextLifecycle ==
    \/ \E r \in Downloaders :
          \/ DlStart(r)
          \/ DlGetShare(r)
          \/ DlValidate(r)
          \/ DlIncrement(r)
          \/ DlRespond(r)
          \/ DlUrlFails(r)
          \/ DlAudit(r)
    \/ CsStart(OwnerReq)
    \/ CsLink(OwnerReq)
    \/ CsRecipient(OwnerReq)
    \/ CsFind(OwnerReq)
    \/ CsDeactivate(OwnerReq)
    \/ CsInsert(OwnerReq)
    \/ CsAudit(OwnerReq)
    \/ RvStart(OwnerReq)
    \/ RvDeactivate(OwnerReq)
    \/ RvAudit(OwnerReq)
    \/ RvAuditFails(OwnerReq)
    \/ RaStart(OwnerReq)
    \/ RaLinks(OwnerReq)
    \/ RaShares(OwnerReq)
    \/ RaAudit(OwnerReq)
    \/ RaAuditFails(OwnerReq)
    \/ Tick

SpecLifecycle == InitLifecycle /\ [][NextLifecycle]_vars

\* C28: no step sets a share's isActive from false to true, decreases its
\* accessCount, changes its expiresAt or maxAccessCount, or turns the clock
\* back; so a share that validation rejects stays rejected, and once a
\* download of a share was answered 403 no later download of that share
\* passes validation.
C28_ValidityMonotone ==
    /\ [][/\ now' >= now
          /\ \A s \in userShares : \A t \in userShares' :
                t.id = s.id
                => /\ t.isActive => s.isActive
                   /\ t.accessCount >= s.accessCount
                   /\ t.expiresAt = s.expiresAt
                   /\ t.maxAccessCount = s.maxAccessCount
                   /\ (/\ t.isActive
                       /\ ~(t.expiresAt # Absent /\ now' >= t.expiresAt)
                       /\ ~(t.maxAccessCount # Absent /\ t.accessCount >= t.maxAccessCount))
                      => (/\ s.isActive
                          /\ ~(s.expiresAt # Absent /\ now >= s.expiresAt)
                          /\ ~(s.maxAccessCount # Absent /\ s.accessCount >= s.maxAccessCount))
      ]_vars
    /\ [][\A q \in Downloaders :
             (pc[q] = "dlValidate" /\ pc'[q] = "dlIncrement")
             => ~\E r \in Downloaders :
                    /\ pc[r] = "done"
                    /\ req[r].status = 403
                    /\ req[r].share.id = req[q].share.id
      ]_vars

C28_Witness ==
    \E r, q \in Downloaders : \E s, t \in userShares :
        /\ pc[r] = "done" /\ req[r].status = 403 /\ req[r].share.id = s.id
        /\ pc[q] = "done" /\ req[q].status = 403 /\ req[q].share.id = s.id
        /\ req[q].at > req[r].at
        /\ ~s.isActive
        /\ t.id > s.id /\ t.isActive /\ t.recipientId = s.recipientId

\* ------------------------------------------------ POST /api/files/upload
ShareReq == "shr"             \* the POST /api/share/create request
UpReq == "upl"                \* the POST /api/files/upload request

\* auth verifies the token only: the request runs as the user the token
\* names, whether or not that user still has a record.  (pre keeps the store
\* the request found.)
UpStart(r) ==
    /\ pc[r] = "idle"
    /\ \E u \in Users : req' = [req EXCEPT ![r] = [NoReq EXCEPT !.user = u]]
    /\ pre' = [pre EXCEPT ![r] = TheStore]
    /\ pc' = [pc EXCEPT ![r] = "upS3"]
    /\ UNCHANGED <<store, nextId, now, grants, txn>>

\* uploadToS3: returns, or throws (500).
UpS3(r) ==
    /\ pc[r] = "upS3"
    /\ \/ /\ pc' = [pc EXCEPT ![r] = "upInsert"]
          /\ req' = req
       \/ /\ pc' = [pc EXCEPT ![r] = "done"]
          /\ req' = [req EXCEPT ![r].status = 500]
    /\ UNCHANGED <<store, nextId, now, pre, grants, txn>>

\* createFile({ownerId: req.user.userId, ...}): insertOne; 201.
UpInsert(r) ==
    /\ pc[r] = "upInsert"
    /\ files' = files \cup {[id |-> nextId, ownerId |-> req[r].user]}
    /\ nextId' = nextId + 1
    /\ req' = [req EXCEPT ![r].fileId = nextId, ![r].status = 201]
    /\ pc' = [pc EXCEPT ![r] = "upAudit"]
    /\ UNCHANGED <<users, shareLinks, userShares, auditLogs, now, pre, grants, txn>>

\* auditLogger('UPLOAD') after the 201 response.
UpAudit(r) ==
    /\ pc[r] = "upAudit"
    /\ AuditWrite(r, "UPLOAD", "done")

\* Two users with a file each, with or without a share that u1 created
\* earlier for its file; a share is created, a file is uploaded and an account
\* is deleted, in any interleaving.
InitOwnership ==
    /\ users = {[id |-> u, username |-> JwtName[u]] : u \in Users}
    /\ files = {[id |-> FileOf[u], ownerId |-> u] : u \in Users}
    /\ shareLinks = {}
    /\ userShares \in {{}, {newUserShare(FirstDocId, FileOf["u1"], "u1", "u2",
                                         Absent, MaxCount)}}
    /\ auditLogs = {}
    /\ nextId = FirstDocId + 1
    /\ now = 1
    /\ pc = [r \in {ShareReq, UpReq, AccReq} |-> "idle"]
    /\ req = [r \in {ShareReq, UpReq, AccReq} |-> NoReq]
    /\ pre = [r \in {ShareReq, UpReq, AccReq} |-> NoStore]
    /\ grants = [i \in {} |-> 0]
    /\ txn = NoTxn

NextOwnership ==
    \/ CsStart(ShareReq)
    \/ CsLink(ShareReq)
    \/ CsRecipient(ShareReq)
    \/ CsFind(ShareReq)
    \/ CsDeactivate(ShareReq)
    \/ CsInsert(ShareReq)
    \/ CsAudit(ShareReq)
    \/ UpStart(UpReq)
    \/ UpS3(UpReq)
    \/ UpInsert(UpReq)
    \/ UpAudit(UpReq)
    \/ AccStart(AccReq)
    \/ AccFindFiles(AccReq)
    \/ AccDeleteShareLinks(AccReq)
    \/ AccDeleteUserShares(AccReq)
    \/ AccDeleteAuditLogs(AccReq)
    \/ AccAnonymize(AccReq)
    \/ AccDeleteFiles(AccReq)
    \/ AccDeleteUser(AccReq)
    \/ AccCommit(AccReq)
    \/ AccStoreError(AccReq)
    \/ AccRespond(AccReq)

SpecOwnership == InitOwnership /\ [][NextOwnership]_vars

\* C29: the ownerId of every link share and user share is the ownerId of
\* the file it references, in the store and in the view of the deletion's
\* transaction; so once account deletion has deleted the shares by ownerId
\* its view holds no share of one of the user's files, and the commit leaves
\* none of the shares that referenced those files when it started.
C29_ShareOwnerIsFileOwner ==
    /\ [](\A s \in userShares \cup shareLinks : \A f \in files :
             s.fileId = f.id => s.ownerId = f.ownerId)
    /\ [](txn.open
          => \A s \in txn.work.userShares \cup txn.work.shareLinks :
                \A f \in txn.work.files :
                   s.fileId = f.id => s.ownerId = f.ownerId)
    /\ [][(pc[AccReq] = "accLinks" /\ pc'[AccReq] = "accShares")
          => \A l \in txn'.work.shareLinks : l.fileId \notin txn.fileIds]_vars
    /\ [][(pc[AccReq] = "accShares" /\ pc'[AccReq] = "accAudits")
          => \A s \in txn'.work.userShares : s.fileId \notin txn.fileIds]_vars
    /\ [][AccCommits
          => \A s \in txn.snap.userShares \cup txn.snap.shareLinks :
                s.fileId \in txn.fileIds
                => s.id \notin Ids(userShares') \cup Ids(shareLinks')]_vars

C29_Witness ==
    /\ AccCommitted
    /\ pc[ShareReq] = "done"
    /\ req[ShareReq].status = 201
    /\ req[ShareReq].user = AccUser
    /\ req[ShareReq].recipient # NoUser
    /\ req[ShareReq].share.id \in Ids(pre[AccReq].userShares)
    /\ req[ShareReq].share.id \notin Ids(userShares)
    /\ req[AccReq].counts.userShares >= 1

\* C30: a request that arrives with a credential of user u after u's account
\* deletion committed (u has no user record when the request starts) creates
\* no file owned by u and no audit entry with userId u.
C30_NothingForDeletedUser ==
    (/\ pc[UpReq] # "idle"
     /\ req[UpReq].user \notin Ids(pre[UpReq].users)
     /\ AccCommitted
     /\ AccUser = req[UpReq].user)
    => /\ \A f \in files : f.ownerId # AccUser
       /\ \A a \in auditLogs : a.userId # AccUser
====
